---- MODULE Spec2Model ----
(***************************************************************************)
(* Model of hpitclient/plugin.py: the Plugin object (subscription          *)
(* registry, wildcard and transaction callbacks, run_loop flag) and the    *)
(* poll loop of Plugin.start with _dispatch and _handle_transactions.      *)
(*                                                                         *)
(* Python dicts (self.callbacks, a message payload) are sets of            *)
(* <<key, value>> pairs updated by DictSet / DictDel.  Values a caller can *)
(* hand in as a callback are the strings of HandlerValues.  The transport  *)
(* (_post_data, _get_data), the session (connect, disconnect), the hooks   *)
(* (_try_hook) and the responses channel live in mixins outside this file; *)
(* their results are inputs chosen by the environment.                     *)
(***************************************************************************)
EXTENDS Integers, Sequences, FiniteSets, TLC

\* ------------------------------------------------------------------ bounds
MaxBatch == 2      \* longest batch of messages / transactions one fetch returns
MaxCycles == 2     \* poll cycles per execution of start()
MaxAcks == 2       \* the subscribe acknowledgments counted per name

\* ------------------------------------------------------------- value sets
Names == {"a", "b"}                      \* message names
MessageHandlers == {"h1", "h2"}          \* callables a host subscribes
SubscribeValues == MessageHandlers \cup {"str"}   \* "str": not callable
HandlerValues == SubscribeValues \cup {"None"}   \* what the registry can hold
WildcardValues == {"None", "w", "str", "zero"}   \* "zero": falsy, not callable
TransactionValues == {"None", "t"}
Transactions == {"t1", "t2"}             \* opaque transaction records

Callable(h) == h \in MessageHandlers \cup {"w", "t"}
Truthy(h) == h \notin {"None", "zero"}

\* ------------------------------------------------------------ Python dict
Keys(d) == {p[1] : p \in d}
Has(d, k) == k \in Keys(d)
Get(d, k) == (CHOOSE p \in d : p[1] = k)[2]
DictDel(d, k) == {p \in d : p[1] # k}
DictSet(d, k, v) == DictDel(d, k) \cup {<<k, v>>}

\* ---------------------------------------------------------------- messages
Payloads == { {<<"score", "90">>} }
Messages == [message_id : {"1"}, sender_entity_id : {"tutorA"},
             message_name : Names, message : Payloads]
SeqsUpTo(S, n) == UNION {[1..k -> S] : k \in 0..n}

\* ------------------------------------------------------------- exceptions
NoExc == [type |-> "none", text |-> "", name |-> ""]
Raised(t) == [type |-> t, text |-> "raised by the callback", name |-> ""]
NoCallbackError(m) ==
    [type |-> "PluginPollError", text |-> "No callback registered for message",
     name |-> m]
WildcardError ==
    [type |-> "PluginPollError", text |-> "Wildcard Callback is not a callable",
     name |-> ""]
BadCallbackException ==
    [type |-> "BadCallbackException", text |-> "The callback submitted is not callable.",
     name |-> ""]
TransportError == [type |-> "TransportError", text |-> "request failed", name |-> ""]

\* What a callable does when it is invoked: return, call self.stop() and
\* return, or raise.
Behaviours == {"return", "stop", "KeyError", "TypeError", "ValueError"}
Returns(b) == b \in {"return", "stop"}

VARIABLES
    run_loop, wildcard_callback, transaction_callback, callbacks,
    pc, message_data, mi, transaction_data, ti,
    result, exc,
    connects, disconnects, lastBroker,
    last,
    ackCount, listed,
    cycles, phases, hookFalse, retFalse, exitCause, stopCycle,
    txCalls, txFalsyAt,
    reqs, opExc, returned

object == <<run_loop, wildcard_callback, transaction_callback, callbacks>>
locals == <<message_data, mi, transaction_data, ti>>
outcome == <<result, exc>>
broker == <<connects, disconnects, lastBroker>>
history == <<ackCount, listed>>
txlog == <<txCalls, txFalsyAt>>
opslog == <<reqs, opExc, returned>>
loopstate == <<cycles, phases, hookFalse, retFalse, exitCause, stopCycle>>
vars == <<run_loop, wildcard_callback, transaction_callback, callbacks,
          pc, message_data, mi, transaction_data, ti, result, exc,
          connects, disconnects, lastBroker, last, ackCount, listed,
          cycles, phases, hookFalse, retFalse, exitCause, stopCycle,
          txCalls, txFalsyAt, reqs, opExc, returned>>

\* What _dispatch did with the message it handled last: the item, the handler
\* the registry held for it, the calls made (<<callee, payload>>), the
\* exception that left the loop body.
NoLast == [seen |-> FALSE, name |-> "", item |-> {}, found |-> FALSE,
           handler |-> "None", hb |-> "", calls |-> <<>>, raised |-> NoExc,
           stopped |-> FALSE]

\* Plugin.__init__
Init ==
    /\ run_loop = TRUE
    /\ wildcard_callback \in WildcardValues
    /\ transaction_callback = "None"
    /\ callbacks = {}
    /\ pc = "idle"
    /\ message_data = <<>> /\ mi = 1
    /\ transaction_data = <<>> /\ ti = 1
    /\ result = "-" /\ exc = NoExc
    /\ connects = 0 /\ disconnects = 0 /\ lastBroker = "none"
    /\ last = NoLast
    /\ ackCount = [n \in Names |-> 0]
    /\ listed = {}
    /\ cycles = 0 /\ phases = <<>>
    /\ hookFalse = "none" /\ retFalse = "none" /\ exitCause = "none"
    /\ stopCycle = 0
    /\ txCalls = <<>> /\ txFalsyAt = 0
    /\ reqs = <<>> /\ opExc = NoExc /\ returned = "None"

\* ------------------------------------------------- subscription registry
Min(x, y) == IF x < y THEN x ELSE y

\* The remote requests one call issues: <<endpoint, message_name, succeeded>>.
Req(endpoint, name, ok) == <<endpoint, name, ok>>

\* Plugin.subscribe with the bug of recording the handler before the request.
RECURSIVE SubscribeLoopRecordFirst(_, _, _)
SubscribeLoopRecordFirst(cbs, entries, oks) ==
    IF entries = <<>> THEN cbs
    ELSE LET recorded == DictSet(cbs, Head(entries)[1], Head(entries)[2])
         IN  IF ~Head(oks) THEN recorded
             ELSE SubscribeLoopRecordFirst(recorded, Tail(entries), Tail(oks))

\* Plugin.subscribe with the bug of swallowing a failed request.
RECURSIVE SubscribeLoopIgnoreFailure(_, _, _)
SubscribeLoopIgnoreFailure(cbs, entries, oks) ==
    IF entries = <<>> THEN cbs
    ELSE SubscribeLoopIgnoreFailure(DictSet(cbs, Head(entries)[1], Head(entries)[2]),
                                    Tail(entries), Tail(oks))

\* Plugin.subscribe: the registry after the loop over messages.items(), where
\* oks[i] says whether the i-th _post_data succeeded (a failed one raises and
\* ends the call).
RECURSIVE SubscribeLoop(_, _, _)
SubscribeLoop(cbs, entries, oks) ==
    IF entries = <<>> THEN cbs
    ELSE IF ~Head(oks) THEN cbs
    ELSE SubscribeLoop(DictSet(cbs, Head(entries)[1], Head(entries)[2]),
                       Tail(entries), Tail(oks))

\* The requests subscribe issues: one per entry up to the first failure.
RECURSIVE SubscribeReqs(_, _)
SubscribeReqs(entries, oks) ==
    IF entries = <<>> THEN <<>>
    ELSE <<Req("plugin/subscribe", Head(entries)[1], Head(oks))>> \o
         (IF Head(oks) THEN SubscribeReqs(Tail(entries), Tail(oks)) ELSE <<>>)

\* Plugin.unsubscribe: the registry after the loop over message_names.
RECURSIVE UnsubscribeLoop(_, _, _)
UnsubscribeLoop(cbs, names, oks) ==
    IF names = <<>> THEN cbs
    ELSE IF ~Has(cbs, Head(names)) THEN UnsubscribeLoop(cbs, Tail(names), Tail(oks))
    ELSE IF ~Head(oks) THEN cbs
    ELSE UnsubscribeLoop(DictDel(cbs, Head(names)), Tail(names), Tail(oks))

\* Plugin.unsubscribe with the bug of asking the broker for names it does not hold.
RECURSIVE UnsubscribeReqsUnguarded(_, _, _)
UnsubscribeReqsUnguarded(cbs, names, oks) ==
    IF names = <<>> THEN <<>>
    ELSE <<Req("plugin/unsubscribe", Head(names), Head(oks))>> \o
         (IF Head(oks)
          THEN UnsubscribeReqsUnguarded(DictDel(cbs, Head(names)), Tail(names), Tail(oks))
          ELSE <<>>)

\* The requests unsubscribe issues: one per name the registry holds, up to the
\* first failure.
RECURSIVE UnsubscribeReqs(_, _, _)
UnsubscribeReqs(cbs, names, oks) ==
    IF names = <<>> THEN <<>>
    ELSE IF ~Has(cbs, Head(names)) THEN UnsubscribeReqs(cbs, Tail(names), Tail(oks))
    ELSE <<Req("plugin/unsubscribe", Head(names), Head(oks))>> \o
         (IF Head(oks)
          THEN UnsubscribeReqs(DictDel(cbs, Head(names)), Tail(names), Tail(oks))
          ELSE <<>>)

\* Plugin.list_subscriptions with the bug of resetting the handler of every
\* name the broker lists.
ListSubscriptionsLoopOverwrite(cbs, subscriptions) ==
    {p \in cbs : p[1] \notin subscriptions} \cup {<<sub, "None">> : sub \in subscriptions}

\* Plugin.list_subscriptions: the registry after the loop over the broker's list.
ListSubscriptionsLoop(cbs, subscriptions) ==
    cbs \cup {<<sub, "None">> : sub \in subscriptions \ Keys(cbs)}

\* Line 60: the call returns the registry object itself, not a copy.
ListSubscriptionsReturn == "self.callbacks"

Failed(rs) == \E i \in 1..Len(rs) : ~rs[i][3]
Acked(rs) == {rs[i][2] : i \in {j \in 1..Len(rs) : rs[j][1] = "plugin/subscribe" /\ rs[j][3]}}
Dropped(rs) == {rs[i][2] : i \in {j \in 1..Len(rs) : rs[j][1] = "plugin/unsubscribe" /\ rs[j][3]}}

\* The mappings a host passes to subscribe, in iteration order.
Entries == {e \in SeqsUpTo(Names \X SubscribeValues, Cardinality(Names)) :
              /\ e # <<>>
              /\ \A i, j \in 1..Len(e) : e[i][1] = e[j][1] => i = j}
NameLists == SeqsUpTo(Names, Cardinality(Names)) \ {<<>>}

Host == pc \in {"idle", "done"}

Subscribe ==
    /\ Host
    /\ \E entries \in Entries : \E oks \in [1..Len(entries) -> BOOLEAN] :
         LET rs == SubscribeReqs(entries, oks) IN
         /\ callbacks' = SubscribeLoop(callbacks, entries, oks)
         /\ reqs' = rs
         /\ opExc' = IF Failed(rs) THEN TransportError ELSE NoExc
         /\ returned' = "None"
         /\ ackCount' = [n \in Names |->
                IF n \in Acked(rs) THEN Min(ackCount[n] + 1, MaxAcks) ELSE ackCount[n]]
    /\ UNCHANGED <<run_loop, wildcard_callback, transaction_callback, pc, locals,
                   outcome, broker, last, listed, loopstate, txlog>>

Unsubscribe ==
    /\ Host
    /\ \E names \in NameLists : \E oks \in [1..Len(names) -> BOOLEAN] :
         LET rs == UnsubscribeReqs(callbacks, names, oks) IN
         /\ callbacks' = UnsubscribeLoop(callbacks, names, oks)
         /\ reqs' = rs
         /\ opExc' = IF Failed(rs) THEN TransportError ELSE NoExc
         /\ returned' = "None"
         /\ ackCount' = [n \in Names |-> IF n \in Dropped(rs) THEN 0 ELSE ackCount[n]]
         /\ listed' = listed \ Dropped(rs)
    /\ UNCHANGED <<run_loop, wildcard_callback, transaction_callback, pc, locals,
                   outcome, broker, last, loopstate, txlog>>

ListSubscriptions ==
    /\ Host
    /\ \E ok \in BOOLEAN : \E subscriptions \in SUBSET Names :
         /\ reqs' = <<Req("plugin/subscription/list", "", ok)>>
         /\ opExc' = IF ok THEN NoExc ELSE TransportError
         /\ callbacks' = IF ok THEN ListSubscriptionsLoop(callbacks, subscriptions)
                         ELSE callbacks
         /\ returned' = IF ok THEN ListSubscriptionsReturn ELSE "None"
         /\ listed' = IF ok THEN listed \cup (subscriptions \ Keys(callbacks)) ELSE listed
    /\ UNCHANGED <<run_loop, wildcard_callback, transaction_callback, pc, locals,
                   outcome, broker, last, ackCount, loopstate, txlog>>

\* A check that lets every value pass.
HasCallAlways(callback) == TRUE

\* Line 36: hasattr(callback, "__call__")
HasCall(callback) == Callable(callback)

\* What a host can pass to register_transaction_callback.
TransactionArgs == {"t", "str", "None"}

\* Lines 36-39: the slot, the requests and the exception of one call of
\* register_transaction_callback, ok saying whether _post_data succeeded.
RegisterTransaction(old, callback, ok) ==
    IF ~HasCall(callback)
    THEN [slot |-> old, reqs |-> <<>>, exc |-> BadCallbackException]
    ELSE [slot |-> IF ok THEN callback ELSE old,
          reqs |-> <<Req("plugin/subscribe", "transaction", ok)>>,
          exc |-> IF ok THEN NoExc ELSE TransportError]

\* Plugin.register_transaction_callback
RegisterTransactionCallback ==
    /\ Host
    /\ \E callback \in TransactionArgs : \E ok \in BOOLEAN :
         LET r == RegisterTransaction(transaction_callback, callback, ok) IN
         /\ opExc' = r.exc
         /\ reqs' = r.reqs
         /\ returned' = "None"
         /\ transaction_callback' = r.slot
    /\ UNCHANGED <<run_loop, wildcard_callback, callbacks, pc, locals, outcome,
                   broker, last, history, loopstate, txlog>>

\* Plugin.clear_transaction_callback
ClearTransactionCallback ==
    /\ Host
    /\ \E ok \in BOOLEAN :
         /\ reqs' = <<Req("plugin/unsubscribe", "transaction", ok)>>
         /\ opExc' = IF ok THEN NoExc ELSE TransportError
         /\ returned' = "None"
         /\ transaction_callback' = IF ok THEN "None" ELSE transaction_callback
    /\ UNCHANGED <<run_loop, wildcard_callback, callbacks, pc, locals, outcome,
                   broker, last, history, loopstate, txlog>>

\* Plugin.stop, called by the host between executions of start()
Stop ==
    /\ Host
    /\ run_loop' = FALSE
    /\ UNCHANGED <<wildcard_callback, transaction_callback, callbacks, pc, locals,
                   outcome, broker, last, history, loopstate, txlog, opslog>>

\* ------------------------------------------------------------- _dispatch
\* Lines 157-159: message_id and sender_entity_id are written into the payload.
Enrich(item) ==
    DictSet(DictSet(item.message, "message_id", item.message_id),
            "sender_entity_id", item.sender_entity_id)

NotCallableError == [type |-> "TypeError", text |-> "object is not callable", name |-> ""]

\* Lines 163-169: the except KeyError branch. wb is what the wildcard does
\* when it is called.
Wildcard(wc, payload, wb) ==
    IF ~Truthy(wc) THEN [calls |-> <<>>, raised |-> NoExc, stopped |-> FALSE]
    ELSE IF ~Callable(wc) THEN [calls |-> <<>>, raised |-> WildcardError, stopped |-> FALSE]
    ELSE [calls |-> << <<wc, payload>> >>,
          raised |-> IF Returns(wb) THEN NoExc
                     ELSE IF wb = "TypeError" THEN WildcardError
                     ELSE Raised(wb),
          stopped |-> wb = "stop"]

\* An except TypeError branch that re-raises whatever the registry holds.
ExceptTypeErrorReraise(h, message) == NotCallableError

\* Lines 170-175: the except TypeError branch for a registered value that
\* could not be called.
ExceptTypeError(h, message) ==
    IF h = "None" THEN NoCallbackError(message) ELSE NotCallableError

\* Lines 154-175: the body of the loop of _dispatch for one message_item. hb is
\* what the registered handler does when it is called, wb what the wildcard does.
Route(cbs, wc, item, hb, wb) ==
    LET message == item.message_name
        payload == Enrich(item)
        found == Has(cbs, message)
        h == IF found THEN Get(cbs, message) ELSE "None"
        w == Wildcard(wc, payload, wb)
        r == IF ~found THEN w
             ELSE IF ~Callable(h)
                  THEN [calls |-> <<>>,
                        raised |-> ExceptTypeError(h, message),
                        stopped |-> FALSE]
             ELSE IF Returns(hb)
                  THEN [calls |-> << <<h, payload>> >>, raised |-> NoExc,
                        stopped |-> hb = "stop"]
             ELSE IF hb = "KeyError"
                  THEN [calls |-> << <<h, payload>> >> \o w.calls, raised |-> w.raised,
                        stopped |-> w.stopped]
             ELSE [calls |-> << <<h, payload>> >>, raised |-> Raised(hb),
                   stopped |-> FALSE]
    IN  [seen |-> TRUE, name |-> message, item |-> item, found |-> found,
         handler |-> h, hb |-> IF found /\ Callable(h) THEN hb ELSE "",
         calls |-> r.calls, raised |-> r.raised,
         stopped |-> r.stopped]

\* ------------------------------------------------------------------ start
\* The hook points __init__ registers with _add_hooks.
RegisteredHooks == {"pre_poll_messages", "post_poll_messages",
                    "pre_dispatch_messages", "post_dispatch_messages",
                    "pre_handle_transactions", "post_handle_transcations"}

\* The hook points of the responses channel, registered by the constructor of
\* the mixin that super().__init__() runs (line 10).
MixinHooks == {"pre_poll_responses", "post_poll_responses"}

\* The results _try_hook(name) can give.
TryHook(name) == BOOLEAN

\* A loop that never looks at run_loop.
WhileCondAlways(rl) == TRUE

\* Line 192: the condition of the while loop.
WhileCond(rl) == rl

\* A hook whose result is ignored.
HookBreakIgnored(ok, next) == next

\* `if not self._try_hook(...): break`
HookBreak(ok, next) == IF ok THEN next ELSE "disconnect"

\* `break` written where `return False` stands.
ReturnFalseAsBreak == [pc |-> "disconnect", result |-> "-"]

\* Lines 211-212 and 217-218: `if not ...: return False`
ReturnFalse == [pc |-> "done", result |-> "False"]

\* A loop that ignores what the callback returns.
HandleItemIgnored(cb, truthy) == "next"

\* Lines 139-141: what the loop of _handle_transactions does with one item, given
\* the callback and whether its return value is truthy.
HandleItem(cb, truthy) ==
    IF Truthy(cb) THEN (IF truthy THEN "next" ELSE "return False") ELSE "next"

TxBehaviours == {"truthy", "falsy", "stop_truthy", "stop_falsy", "ValueError"}

InTry == {"while", "pre_poll_messages", "poll", "post_poll_messages",
          "pre_dispatch_messages", "dispatch", "pre_handle_transactions",
          "fetch_transactions", "transactions", "post_handle_transactions",
          "pre_poll_responses", "poll_responses", "post_poll_responses",
          "dispatch_responses"}

\* An exception leaves start(): nothing catches it, line 238 is not reached.
Propagate(e) ==
    /\ pc' = "done"
    /\ result' = "raise"
    /\ exc' = e
    /\ exitCause' = "raise"

\* message_data, transaction_data and the loop indices are kept while the code
\* can still read them; last and txCalls, the record of what _dispatch and
\* _handle_transactions did, are kept until the call returns True or is
\* abandoned by an interrupt.
NoLocals == message_data' = <<>> /\ mi' = 1 /\ transaction_data' = <<>> /\ ti' = 1
NoRecord == last' = NoLast /\ txCalls' = <<>> /\ txFalsyAt' = 0

\* Lines 188-189: connect(), list_subscriptions(); then the try block is entered.
Start ==
    /\ Host
    /\ connects' = 1 /\ disconnects' = 0
    /\ lastBroker' = "plugin/subscription/list"
    /\ NoLocals /\ NoRecord
    /\ cycles' = 0 /\ phases' = <<>> /\ hookFalse' = "none" /\ retFalse' = "none"
    /\ stopCycle' = 0
    /\ \E ok \in BOOLEAN : \E subscriptions \in SUBSET Names :
         /\ reqs' = <<Req("plugin/subscription/list", "", ok)>>
         /\ opExc' = NoExc
         /\ returned' = IF ok THEN ListSubscriptionsReturn ELSE "None"
         /\ IF ok
            THEN /\ callbacks' = ListSubscriptionsLoop(callbacks, subscriptions)
                 /\ listed' = listed \cup (subscriptions \ Keys(callbacks))
                 /\ pc' = "while" /\ result' = "-" /\ exc' = NoExc
                 /\ exitCause' = "none"
            ELSE /\ UNCHANGED <<callbacks, listed>>
                 /\ Propagate(TransportError)
    /\ UNCHANGED <<run_loop, wildcard_callback, transaction_callback, ackCount>>

\* Lines 192-200: the loop condition and the timer.
While ==
    /\ pc = "while"
    /\ IF ~WhileCond(run_loop)
       THEN /\ pc' = "disconnect"
            /\ exitCause' = "stop"
            /\ UNCHANGED <<cycles, phases>>
       ELSE \E elapsed \in BOOLEAN :
              IF elapsed
              THEN /\ cycles < MaxCycles
                   /\ cycles' = cycles + 1
                   /\ phases' = <<>>
                   /\ pc' = "pre_poll_messages"
                   /\ UNCHANGED exitCause
              ELSE UNCHANGED <<pc, cycles, phases, exitCause>>
    /\ UNCHANGED <<object, locals, outcome, broker, last, history, hookFalse, retFalse, stopCycle, txlog, opslog>>

\* `if not self._try_hook(name): break` at pc = name.
HookStep(name, next) ==
    /\ pc = name
    /\ phases' = Append(phases, name)
    /\ \E ok \in TryHook(name) :
         /\ pc' = HookBreak(ok, next)
         /\ hookFalse' = IF ok THEN hookFalse ELSE name
         /\ exitCause' = IF ok THEN exitCause ELSE "hook"
         /\ IF ok THEN UNCHANGED locals ELSE NoLocals
    /\ UNCHANGED <<object, outcome, broker, last, history, cycles,
                   retFalse, stopCycle, txlog, opslog>>

PrePollMessages == HookStep("pre_poll_messages", "poll")
PostPollMessages == HookStep("post_poll_messages", "pre_dispatch_messages")
PreHandleTransactions == HookStep("pre_handle_transactions", "fetch_transactions")
PostHandleTransactions == HookStep("post_handle_transactions", "pre_poll_responses")
PrePollResponses == HookStep("pre_poll_responses", "poll_responses")
PostPollResponses == HookStep("post_poll_responses", "dispatch_responses")

\* A loop body that goes from the fetch straight to the dispatch.
AfterPollSkipsHook == "pre_dispatch_messages"

\* Lines 206-208: the statement that follows `message_data = self._poll()`.
AfterPoll == "post_poll_messages"

\* Line 206 with _poll (line 129).
Poll ==
    /\ pc = "poll"
    /\ phases' = Append(phases, "poll")
    /\ lastBroker' = "plugin/message/list"
    /\ \E ok \in BOOLEAN : \E messages \in SeqsUpTo(Messages, MaxBatch) :
         IF ok
         THEN /\ message_data' = messages
              /\ pc' = AfterPoll
              /\ UNCHANGED <<outcome, exitCause>>
         ELSE /\ Propagate(TransportError)
              /\ UNCHANGED message_data
    /\ UNCHANGED <<object, mi, transaction_data, ti, connects, disconnects, last,
                   history, cycles, hookFalse, retFalse, stopCycle, txlog,
                   opslog>>

\* Lines 150-151 of _dispatch and 211-212 of start.
DispatchPre ==
    /\ pc = "pre_dispatch_messages"
    /\ phases' = Append(phases, "pre_dispatch_messages")
    /\ mi' = 1
    /\ \E ok \in TryHook("pre_dispatch_messages") :
         IF ok
         THEN /\ pc' = "dispatch"
              /\ UNCHANGED <<outcome, hookFalse, retFalse, exitCause>>
         ELSE /\ pc' = ReturnFalse.pc
              /\ result' = ReturnFalse.result
              /\ hookFalse' = "pre_dispatch_messages"
              /\ retFalse' = "_dispatch"
              /\ exitCause' = "hook"
              /\ UNCHANGED exc
    /\ UNCHANGED <<object, message_data, transaction_data, ti, broker, last,
                   history, cycles, stopCycle, txlog, opslog>>

\* Lines 153-175: one iteration of the loop over message_data.
DispatchMessage ==
    /\ pc = "dispatch"
    /\ mi <= Len(message_data)
    /\ phases' = Append(phases, "message")
    /\ \E hb \in Behaviours : \E wb \in Behaviours :
         LET r == Route(callbacks, wildcard_callback, message_data[mi], hb, wb) IN
         /\ last' = r
         /\ run_loop' = IF r.stopped THEN FALSE ELSE run_loop
         /\ stopCycle' = IF r.stopped /\ stopCycle = 0 THEN cycles ELSE stopCycle
         /\ IF r.raised = NoExc
            THEN /\ mi' = mi + 1
                 /\ UNCHANGED <<pc, outcome, exitCause>>
            ELSE /\ Propagate(r.raised)
                 /\ UNCHANGED mi
    /\ UNCHANGED <<wildcard_callback, transaction_callback, callbacks, message_data,
                   transaction_data, ti, broker, history, cycles, hookFalse,
                   retFalse, txlog, opslog>>

\* Lines 177-180 of _dispatch and 211-212 of start.
DispatchPost ==
    /\ pc = "dispatch"
    /\ mi > Len(message_data)
    /\ phases' = Append(phases, "post_dispatch_messages")
    /\ NoLocals
    /\ last' = NoLast
    /\ \E ok \in TryHook("post_dispatch_messages") :
         IF ok
         THEN /\ pc' = "pre_handle_transactions"
              /\ UNCHANGED <<outcome, hookFalse, retFalse, exitCause>>
         ELSE /\ pc' = ReturnFalse.pc
              /\ result' = ReturnFalse.result
              /\ hookFalse' = "post_dispatch_messages"
              /\ retFalse' = "_dispatch"
              /\ exitCause' = "hook"
              /\ UNCHANGED exc
    /\ UNCHANGED <<object, broker, history, cycles, stopCycle, txlog, opslog>>

\* Line 136: the transaction list is fetched.
FetchTransactions ==
    /\ pc = "fetch_transactions"
    /\ phases' = Append(phases, "fetch_transactions")
    /\ lastBroker' = "plugin/transaction/list"
    /\ txCalls' = <<>> /\ txFalsyAt' = 0
    /\ \E ok \in BOOLEAN : \E transactions \in SeqsUpTo(Transactions, MaxBatch) :
         IF ok
         THEN /\ transaction_data' = transactions
              /\ ti' = 1
              /\ pc' = "transactions"
              /\ UNCHANGED <<outcome, exitCause>>
         ELSE /\ Propagate(TransportError)
              /\ UNCHANGED <<transaction_data, ti>>
    /\ UNCHANGED <<object, message_data, mi, connects, disconnects, last, history,
                   cycles, hookFalse, retFalse, stopCycle, opslog>>

\* Lines 138-141: one iteration of the loop over transaction_data; a falsy
\* return of the callback makes _handle_transactions and then start (lines
\* 217-218) return False.
HandleTransaction ==
    /\ pc = "transactions"
    /\ ti <= Len(transaction_data)
    /\ \E b \in TxBehaviours :
         LET called == Truthy(transaction_callback)
             stopped == called /\ b \in {"stop_truthy", "stop_falsy"}
             falsy == called /\ b \in {"falsy", "stop_falsy"}
             step == HandleItem(transaction_callback, b \in {"truthy", "stop_truthy"})
         IN
         /\ txFalsyAt' = IF falsy /\ txFalsyAt = 0 THEN ti ELSE txFalsyAt
         /\ txCalls' = IF called THEN Append(txCalls, transaction_data[ti]) ELSE txCalls
         /\ phases' = IF called THEN Append(phases, "transaction") ELSE phases
         /\ run_loop' = IF stopped THEN FALSE ELSE run_loop
         /\ stopCycle' = IF stopped /\ stopCycle = 0 THEN cycles ELSE stopCycle
         /\ IF called /\ b = "ValueError"
            THEN /\ Propagate(Raised(b))
                 /\ UNCHANGED <<ti, retFalse>>
            ELSE IF step = "next"
            THEN /\ ti' = ti + 1
                 /\ UNCHANGED <<pc, outcome, exitCause, retFalse>>
            ELSE /\ pc' = ReturnFalse.pc
                 /\ result' = ReturnFalse.result
                 /\ retFalse' = "_handle_transactions"
                 /\ exitCause' = "false"
                 /\ UNCHANGED <<ti, exc>>
    /\ UNCHANGED <<wildcard_callback, transaction_callback, callbacks, message_data,
                   mi, transaction_data, broker, last, history, cycles,
                   hookFalse, opslog>>

\* Lines 143 and 217: _handle_transactions returns True.
TransactionsDone ==
    /\ pc = "transactions"
    /\ ti > Len(transaction_data)
    /\ pc' = "post_handle_transactions"
    /\ NoLocals /\ NoRecord
    /\ UNCHANGED <<object, outcome, broker, history, loopstate, opslog>>

\* Line 227: _poll_responses().
PollResponses ==
    /\ pc = "poll_responses"
    /\ phases' = Append(phases, "poll_responses")
    /\ lastBroker' = "response/list"
    /\ \E ok \in BOOLEAN :
         IF ok
         THEN /\ pc' = "post_poll_responses"
              /\ UNCHANGED <<outcome, exitCause>>
         ELSE Propagate(TransportError)
    /\ UNCHANGED <<object, locals, connects, disconnects, last, history, cycles, hookFalse, retFalse, stopCycle, txlog, opslog>>

\* Lines 232-233: `if not self._dispatch_responses(responses): break`
DispatchResponses ==
    /\ pc = "dispatch_responses"
    /\ phases' = Append(phases, "dispatch_responses")
    /\ \E ok \in BOOLEAN :
         /\ pc' = HookBreak(ok, "while")
         /\ exitCause' = IF ok THEN exitCause ELSE "responses"
    /\ UNCHANGED <<object, locals, outcome, broker, last, history, cycles,
                   hookFalse, retFalse, stopCycle, txlog, opslog>>

\* A try block without the except clause: the interrupt leaves start().
ExceptKeyboardInterruptMissing == "done"

\* Lines 235-238: `except KeyboardInterrupt: pass`, control goes on at line 238.
ExceptKeyboardInterrupt == "disconnect"

\* Lines 235-236: a KeyboardInterrupt inside the try block is caught.
Interrupt ==
    /\ pc \in InTry
    /\ pc' = ExceptKeyboardInterrupt
    /\ exitCause' = "interrupt"
    /\ NoLocals /\ NoRecord
    /\ UNCHANGED <<object, outcome, broker, history, cycles,
                   phases, hookFalse, retFalse, stopCycle, opslog>>

\* Line 238, and start() falls off its end.
Disconnect ==
    /\ pc = "disconnect"
    /\ disconnects' = disconnects + 1
    /\ lastBroker' = "disconnect"
    /\ pc' = "done"
    /\ result' = "None"
    /\ UNCHANGED <<object, locals, exc, connects, last, history, loopstate,
                   txlog, opslog>>

Next ==
    \/ Subscribe \/ Unsubscribe \/ ListSubscriptions
    \/ RegisterTransactionCallback \/ ClearTransactionCallback \/ Stop
    \/ Start \/ While
    \/ PrePollMessages \/ Poll \/ PostPollMessages
    \/ DispatchPre \/ DispatchMessage \/ DispatchPost
    \/ PreHandleTransactions \/ FetchTransactions \/ HandleTransaction
    \/ TransactionsDone \/ PostHandleTransactions
    \/ PrePollResponses \/ PollResponses \/ PostPollResponses \/ DispatchResponses
    \/ Interrupt \/ Disconnect

Spec == Init /\ [][Next]_vars

\* The registries subscribe calls can have built before start() is called.
Registries == UNION {[ks -> HandlerValues] : ks \in SUBSET Names}
AsDict(f) == {<<k, f[k]>> : k \in DOMAIN f}

\* A Plugin the host has configured and is about to start: handlers recorded
\* by subscribe, null handlers added by list_subscriptions, a transaction
\* callback set by register_transaction_callback or not.
InitLoop ==
    /\ run_loop = TRUE
    /\ wildcard_callback \in WildcardValues
    /\ transaction_callback \in TransactionValues
    /\ \E f \in Registries :
         /\ callbacks = AsDict(f)
         /\ ackCount = [n \in Names |->
                IF n \in DOMAIN f /\ f[n] # "None" THEN 1 ELSE 0]
         /\ listed = {n \in DOMAIN f : f[n] = "None"}
    /\ pc = "idle"
    /\ message_data = <<>> /\ mi = 1
    /\ transaction_data = <<>> /\ ti = 1
    /\ result = "-" /\ exc = NoExc
    /\ connects = 0 /\ disconnects = 0 /\ lastBroker = "none"
    /\ last = NoLast
    /\ cycles = 0 /\ phases = <<>>
    /\ hookFalse = "none" /\ retFalse = "none" /\ exitCause = "none"
    /\ stopCycle = 0
    /\ txCalls = <<>> /\ txFalsyAt = 0
    /\ reqs = <<>> /\ opExc = NoExc /\ returned = "None"

NextLoop ==
    \/ Stop \/ Start \/ While
    \/ PrePollMessages \/ Poll \/ PostPollMessages
    \/ DispatchPre \/ DispatchMessage \/ DispatchPost
    \/ PreHandleTransactions \/ FetchTransactions \/ HandleTransaction
    \/ TransactionsDone \/ PostHandleTransactions
    \/ PrePollResponses \/ PollResponses \/ PostPollResponses \/ DispatchResponses
    \/ Interrupt \/ Disconnect

SpecLoop == InitLoop /\ [][NextLoop]_vars

\* The host calls subscribe and unsubscribe only.
NextSubs == Subscribe \/ Unsubscribe
SpecSubs == Init /\ [][NextSubs]_vars

\* The host calls the registry operations, and start() with the poll loop
\* left at once by an interrupt.
NextRegistry ==
    \/ Subscribe \/ Unsubscribe \/ ListSubscriptions
    \/ RegisterTransactionCallback \/ ClearTransactionCallback
    \/ Start \/ Interrupt \/ Disconnect
InitRegistry == Init /\ wildcard_callback = "None"
SpecRegistry == InitRegistry /\ [][NextRegistry]_vars

\* ================================================================ claims
LoopExit == exitCause \in {"stop", "hook", "false", "interrupt", "responses"}

\* C1: every execution of start() that ends by a stop() request, a hook
\* returning false, _dispatch or _handle_transactions returning false, or an
\* interrupt has called connect once and disconnect once, and disconnect was
\* its last broker interaction.
C1_ConnectAndDisconnectOnce ==
    (pc = "done" /\ LoopExit) =>
        connects = 1 /\ disconnects = 1 /\ lastBroker = "disconnect"

\* The payload a handler is to receive: the message's fields plus message_id
\* and sender_entity_id of the message.
ExpectedPayload(item) ==
    {p \in item.message : p[1] \notin {"message_id", "sender_entity_id"}}
        \cup {<<"message_id", item.message_id>>,
              <<"sender_entity_id", item.sender_entity_id>>}

\* C2: a message whose name has no entry in the registry is handed to the
\* wildcard exactly once when a wildcard is present, and makes _dispatch raise
\* the no-callback error naming the message when no wildcard is present.
C2_UnregisteredMessage ==
    (last.seen /\ ~last.found) =>
        /\ wildcard_callback = "w" =>
               last.calls = << <<"w", ExpectedPayload(last.item)>> >>
        /\ wildcard_callback = "None" =>
               /\ last.raised = NoCallbackError(last.name)
               /\ pc = "done" /\ exc = NoCallbackError(last.name)

\* C3: an exception a registered callable handler raises leaves _dispatch
\* unmodified, and the wildcard is not called in the handler's place.
C3_HandlerExceptionPropagates ==
    (last.seen /\ last.found /\ Callable(last.handler) /\ ~Returns(last.hb)) =>
        /\ last.raised = Raised(last.hb)
        /\ exc = Raised(last.hb) /\ result = "raise"
        /\ last.calls = << <<last.handler, ExpectedPayload(last.item)>> >>

\* C4: for a message whose name maps to a registered callable handler, that
\* handler and nothing else is called, once, with the message's payload plus
\* message_id and sender_entity_id.
C4_RegisteredHandlerCalledOnce ==
    (last.seen /\ last.found /\ Callable(last.handler)) =>
        last.calls = << <<last.handler, ExpectedPayload(last.item)>> >>

\* C5: once a hook has returned false in a cycle, no later phase of the cycle
\* runs and no further cycle starts: the hook is the last phase recorded and
\* control is on its way out of start().
C5_HookFalseAborts ==
    hookFalse # "none" =>
        /\ pc \in {"disconnect", "done"}
        /\ phases # <<>> /\ phases[Len(phases)] = hookFalse
C5_Witness ==
    pc = "done" /\ hookFalse = "pre_handle_transactions" /\ cycles = 1

\* The phases of one whole cycle, the calls per message and per transaction
\* left out.
FullCycle ==
    <<"pre_poll_messages", "poll", "post_poll_messages", "pre_dispatch_messages",
      "post_dispatch_messages", "pre_handle_transactions", "fetch_transactions",
      "post_handle_transactions", "pre_poll_responses", "poll_responses",
      "post_poll_responses", "dispatch_responses">>
IsPhase(p) == p \notin {"message", "transaction"}

\* C6: after stop() was called from a handler in a cycle, run_loop stays false,
\* the loop is left on account of it only at the top of the loop, when every
\* phase of that cycle has run, and no further cycle begins.
C6_StopIsCooperative ==
    stopCycle # 0 =>
        /\ ~run_loop
        /\ cycles = stopCycle
        /\ exitCause = "stop" =>
               /\ SelectSeq(phases, IsPhase) = FullCycle
               /\ pc \in {"disconnect", "done"}
C6_Witness ==
    /\ stopCycle = 1 /\ exitCause = "stop" /\ pc = "done"
    /\ \E i \in 1..Len(phases) : phases[i] = "message"

\* C7: with a transaction callback registered the records are passed to it in
\* order, and at the first falsy return no later record is passed and
\* _handle_transactions (and start) return False.
C7_TransactionsStopAtFalsy ==
    /\ (pc = "transactions" /\ Truthy(transaction_callback)) =>
           txCalls = SubSeq(transaction_data, 1, ti - 1)
    /\ txFalsyAt # 0 =>
           /\ txCalls = SubSeq(transaction_data, 1, txFalsyAt)
           /\ retFalse = "_handle_transactions"
           /\ pc = "done" /\ result = "False"
C7_Witness ==
    txFalsyAt = 1 /\ Len(transaction_data) = 2 /\ pc = "done"

\* C8 as stated: a false return of _dispatch or _handle_transactions ends
\* start() at once with the result False, and no stop() request and no hook
\* abort gives that result.
C8_FalseDistinctFromEveryHookAbort ==
    /\ retFalse # "none" => pc = "done" /\ result = "False"
    /\ (pc = "done" /\ exitCause \in {"stop", "hook"}) => result # "False"

\* C8 amended: a false return of _dispatch or _handle_transactions ends start()
\* at once (the phase that returned false is the last one recorded) with the
\* result False, and every exit that is no such false return (a stop()
\* request, an abort by a hook of the loop itself, an interrupt) gives another
\* result; an abort by a hook of _dispatch is a false return of _dispatch.
LoopHooks == {"pre_poll_messages", "post_poll_messages", "pre_handle_transactions",
              "post_handle_transactions", "pre_poll_responses", "post_poll_responses"}
C8_FalseReturnIsFailure ==
    /\ retFalse # "none" =>
           /\ pc = "done" /\ result = "False" /\ disconnects = 0
           /\ phases[Len(phases)] \in
                  {"pre_dispatch_messages", "post_dispatch_messages", "transaction"}
    /\ (pc = "done" /\ retFalse = "none") => result # "False"
    /\ (pc = "done" /\ (exitCause = "stop" \/ hookFalse \in LoopHooks)) =>
           result = "None"
    /\ hookFalse \in {"pre_dispatch_messages", "post_dispatch_messages"} =>
           retFalse = "_dispatch"
C8_Witness ==
    pc = "done" /\ retFalse = "_handle_transactions" /\ result = "False" /\ cycles = 2

\* C9: after any sequence of subscribe and unsubscribe calls the registry holds
\* one handler per name, and every name in it was recorded by a subscribe whose
\* request succeeded and was not removed since.
C9_RegistryFromAckedSubscribes ==
    \A n \in Keys(callbacks) :
        /\ Cardinality({p \in callbacks : p[1] = n}) = 1
        /\ ackCount[n] >= 1
C9_Witness ==
    /\ callbacks # {}
    /\ \E i \in 1..Len(reqs) :
         reqs[i][1] = "plugin/subscribe" /\ ~reqs[i][3] /\ ~Has(callbacks, reqs[i][2])

\* C10 as stated: every name in the registry has exactly one successful
\* subscribe acknowledgment behind it.
C10_ExactlyOneAck ==
    \A n \in Keys(callbacks) : ackCount[n] = 1

\* C10 amended: every name in the registry has at least one successful
\* subscribe acknowledgment behind it, or was reported by the broker's
\* subscription list while absent locally and holds the null handler.
C10_AckedOrListed ==
    \A n \in Keys(callbacks) :
        \/ ackCount[n] >= 1
        \/ n \in listed /\ Get(callbacks, n) = "None"
C10_Witness ==
    \E n \in Keys(callbacks) : ackCount[n] = 0 /\ n \in listed /\ pc = "done"

\* The entry the registry holds for a name (empty when it holds none), and the
\* requests of a call that name it.
EntryOf(cbs, n) == {p \in cbs : p[1] = n}
ReqsFor(rs, n) == {i \in 1..Len(rs) : rs[i][2] = n}
SubscribeCall(rs) == rs # <<>> /\ rs[1][1] = "plugin/subscribe" /\ rs[1][2] \in Names
UnsubscribeCall(rs) == rs = <<>> \/ (rs[1][1] = "plugin/unsubscribe" /\ rs[1][2] \in Names)

\* C11: in every call of subscribe an entry of the registry changes only for a
\* name whose subscribe request was issued and succeeded, and the entry of a
\* name whose request failed is what it was before the call (the previous
\* handler, or none).
C11_RequestBeforeRecord ==
    [][SubscribeCall(reqs') =>
          \A n \in Names :
              /\ (\E i \in ReqsFor(reqs', n) : ~reqs'[i][3]) =>
                     EntryOf(callbacks', n) = EntryOf(callbacks, n)
              /\ EntryOf(callbacks', n) # EntryOf(callbacks, n) => n \in Acked(reqs')
              /\ n \in Acked(reqs') => ReqsFor(reqs', n) # {} /\ Has(callbacks', n)]_vars
C11_Witness ==
    /\ Len(reqs) = 2 /\ reqs[1][1] = "plugin/subscribe" /\ reqs[1][3] /\ ~reqs[2][3]
    /\ Has(callbacks, reqs[1][2])
    /\ Has(callbacks, reqs[2][2]) /\ Get(callbacks, reqs[2][2]) = "h1"

\* C12: a call of unsubscribe issues no request for a name the registry does
\* not hold and at most one per name, removes exactly the names whose request
\* succeeded and changes no other entry; from any registry, a call whose
\* requests succeed issues one request per name passed that the registry
\* holds, and the same call made again issues no request and leaves the
\* registry as it is.
AllOk(names) == [i \in 1..Len(names) |-> TRUE]
Passed(names) == {names[i] : i \in 1..Len(names)}
C12_UnsubscribeIdempotent ==
    /\ [](\A names \in NameLists :
            LET rs == UnsubscribeReqs(callbacks, names, AllOk(names))
                after == UnsubscribeLoop(callbacks, names, AllOk(names))
            IN  /\ \A n \in Names :
                       Cardinality(ReqsFor(rs, n)) =
                           IF n \in Passed(names) /\ Has(callbacks, n) THEN 1 ELSE 0
                /\ after = {p \in callbacks : p[1] \notin Passed(names)}
                /\ \A oks \in [1..Len(names) -> BOOLEAN] :
                       /\ UnsubscribeReqs(after, names, oks) = <<>>
                       /\ UnsubscribeLoop(after, names, oks) = after)
    /\ [][UnsubscribeCall(reqs') =>
            /\ \A n \in Names :
                   /\ Cardinality(ReqsFor(reqs', n)) <= 1
                   /\ ~Has(callbacks, n) => ReqsFor(reqs', n) = {}
            /\ callbacks' = {p \in callbacks : p[1] \notin Dropped(reqs')}]_vars
C12_Witness ==
    /\ Len(reqs) = 1 /\ reqs[1] = Req("plugin/unsubscribe", "a", TRUE)
    /\ ~Has(callbacks, "a") /\ Has(callbacks, "b")

\* C13: a call of list_subscriptions that got the broker's list keeps every
\* entry of the registry as it was, adds exactly the names of the list that
\* were absent, each with the null handler, and returns the registry.
ListCall(rs) == rs = <<Req("plugin/subscription/list", "", TRUE)>>
C13_ListSubscriptionsFrame ==
    /\ [](listed \subseteq Keys(callbacks))
    /\ [][ListCall(reqs') =>
            /\ callbacks \subseteq callbacks'
            /\ Keys(callbacks') \ Keys(callbacks) = listed' \ listed
            /\ \A n \in Keys(callbacks') \ Keys(callbacks) :
                   EntryOf(callbacks', n) = {<<n, "None">>}
            /\ returned' = "self.callbacks"]_vars
C13_Witness ==
    /\ ListCall(reqs) /\ returned = "self.callbacks" /\ pc = "idle"
    /\ callbacks = {<<"a", "h1">>, <<"b", "None">>} /\ listed = {"b"}

\* C14: register_transaction_callback with a value that is not callable raises
\* BadCallbackException, issues no request and leaves the transaction handler
\* as it was; with a callable it issues one subscribe request for
\* "transaction" and sets the handler only when that request succeeded. So the
\* slot never holds a value that is not callable, and it changes to a handler
\* only in a step whose request succeeded.
C14_RegisterTransactionCallback ==
    /\ [](/\ transaction_callback = "None" \/ Callable(transaction_callback)
          /\ \A callback \in TransactionArgs : \A ok \in BOOLEAN :
                 LET r == RegisterTransaction(transaction_callback, callback, ok) IN
                 IF Callable(callback)
                 THEN /\ r.reqs = <<Req("plugin/subscribe", "transaction", ok)>>
                      /\ r.slot = IF ok THEN callback ELSE transaction_callback
                      /\ r.exc # BadCallbackException
                 ELSE /\ r.exc = BadCallbackException
                      /\ r.reqs = <<>>
                      /\ r.slot = transaction_callback)
    /\ [][/\ opExc' = BadCallbackException =>
               reqs' = <<>> /\ transaction_callback' = transaction_callback
          /\ reqs' = <<Req("plugin/subscribe", "transaction", FALSE)>> =>
               transaction_callback' = transaction_callback
          /\ (transaction_callback' # transaction_callback
                 /\ transaction_callback' # "None") =>
               /\ reqs' = <<Req("plugin/subscribe", "transaction", TRUE)>>
               /\ opExc' = NoExc]_vars
C14_Witness ==
    transaction_callback = "t" /\ opExc = BadCallbackException /\ reqs = <<>>

\* C15 as stated: a message whose name the registry holds with a value that is
\* not callable makes _dispatch raise the no-callback error naming the
\* message, with or without a wildcard, and the wildcard is not called.
C15_NotCallableIsNoHandler ==
    (last.seen /\ last.found /\ ~Callable(last.handler)) =>
        /\ last.calls = <<>>
        /\ last.raised = NoCallbackError(last.name)
        /\ pc = "done" /\ result = "raise" /\ exc = NoCallbackError(last.name)

\* C15 amended: such a message makes _dispatch raise, with or without a
\* wildcard and without calling it: the no-callback error naming the message
\* when the value is the null handler, the TypeError of the failed call when
\* it is any other value that is not callable.
C15_NullHandlerIsNoHandler ==
    (last.seen /\ last.found /\ ~Callable(last.handler)) =>
        /\ last.calls = <<>>
        /\ last.raised = IF last.handler = "None" THEN NoCallbackError(last.name)
                                                  ELSE NotCallableError
        /\ pc = "done" /\ result = "raise" /\ exc = last.raised
C15_Witness ==
    /\ last.seen /\ last.found /\ last.handler = "None" /\ wildcard_callback = "w"
    /\ exc = NoCallbackError("b") /\ pc = "done"

\* C16: a message whose name the registry does not hold, with a wildcard set
\* to a value that is not callable, makes _dispatch raise the wildcard error,
\* whatever that value is.
C16_BadWildcardRaises ==
    (last.seen /\ ~last.found /\ wildcard_callback # "None"
        /\ ~Callable(wildcard_callback)) =>
        /\ last.calls = <<>>
        /\ last.raised = WildcardError
        /\ pc = "done" /\ result = "raise" /\ exc = WildcardError

\* C17: an interrupt inside the try block does not leave start(): control goes
\* to the disconnect, no phase and no cycle is added after it, and start()
\* then ends as after a stop() request, with one disconnect as its last
\* broker interaction and no exception.
C17_InterruptIsCaught ==
    /\ [](exitCause = "interrupt" =>
            /\ pc \in {"disconnect", "done"}
            /\ exc = NoExc /\ connects = 1
            /\ pc = "done" =>
                   disconnects = 1 /\ lastBroker = "disconnect" /\ result = "None")
    /\ [][(exitCause = "interrupt" /\ exitCause' = "interrupt") =>
            /\ phases' = phases /\ cycles' = cycles
            /\ pc = "disconnect" => pc' = "done" /\ disconnects' = 1]_vars
C17_Witness ==
    /\ exitCause = "interrupt" /\ pc = "done" /\ disconnects = 1
    /\ phases # <<>> /\ phases[Len(phases)] = "message" /\ cycles = 2

\* C18: the phases recorded in a cycle are an initial part of the loop body in
\* its order, each at most once; handler calls come only between the
\* pre_dispatch_messages and post_dispatch_messages hooks, one per message in
\* batch order, transaction calls only after the transaction fetch; and the
\* batch the loop holds was fetched in the current cycle and is gone once its
\* dispatch has finished.
CallsOf(kind) == {i \in 1..Len(phases) : phases[i] = kind}
C18_PhaseOrder ==
    LET ps == SelectSeq(phases, IsPhase) IN
    /\ Len(ps) <= Len(FullCycle)
    /\ ps = SubSeq(FullCycle, 1, Len(ps))
    /\ \A i \in CallsOf("message") :
           i > 1 /\ phases[i - 1] \in {"pre_dispatch_messages", "message"}
    /\ \A i \in CallsOf("transaction") :
           i > 1 /\ phases[i - 1] \in {"fetch_transactions", "transaction"}
    /\ last.seen =>
           /\ Cardinality(CallsOf("message")) \in 1..Len(message_data)
           /\ last.item = message_data[Cardinality(CallsOf("message"))]
    /\ pc = "dispatch" => mi = Cardinality(CallsOf("message")) + 1
    /\ message_data # <<>> =>
           /\ \E i \in 1..Len(phases) : phases[i] = "poll"
           /\ \A i \in 1..Len(phases) : phases[i] # "post_dispatch_messages"
    /\ CallsOf("message") # {} => \E i \in 1..Len(phases) : phases[i] = "poll"
C18_Witness ==
    /\ pc = "while" /\ cycles = 2
    /\ SelectSeq(phases, IsPhase) = FullCycle
    /\ Cardinality(CallsOf("message")) = 2
    /\ Cardinality(CallsOf("transaction")) = 2

\* C19: every hook the loop and _dispatch run in a cycle is a hook point that
\* was registered when the Plugin was constructed.
HookPoints == LoopHooks \cup {"pre_dispatch_messages", "post_dispatch_messages"}
C19_HooksRunAreRegistered ==
    \A i \in 1..Len(phases) :
        phases[i] \in HookPoints => phases[i] \in RegisteredHooks \cup MixinHooks

\* C20: run_loop never goes back to true, and an execution of start() that
\* begins after stop() was called goes from list_subscriptions to the loop
\* condition and from there to the disconnect: it runs no cycle and no phase,
\* fetches nothing, calls no handler, and ends with one connect, one
\* disconnect and the result None.
Running == pc \notin {"idle", "done"}
StoppedBeforeStart == Running /\ ~run_loop /\ stopCycle = 0
C20_StopIsPermanent ==
    /\ [][run_loop' => run_loop]_vars
    /\ [](StoppedBeforeStart =>
            /\ pc \in {"while", "disconnect"}
            /\ cycles = 0 /\ phases = <<>>
            /\ last = NoLast /\ txCalls = <<>>
            /\ message_data = <<>> /\ transaction_data = <<>>
            /\ connects = 1 /\ disconnects = 0
            /\ lastBroker = "plugin/subscription/list")
    /\ [][StoppedBeforeStart =>
            /\ pc = "while" => pc' \in {"while", "disconnect"}
            /\ pc = "disconnect" =>
                   /\ pc' = "done" /\ result' = "None" /\ exc' = NoExc
                   /\ connects' = 1 /\ disconnects' = 1 /\ lastBroker' = "disconnect"
                   /\ cycles' = 0 /\ phases' = <<>> /\ last' = NoLast
                   /\ txCalls' = <<>>]_vars
C20_Witness ==
    /\ pc = "done" /\ ~run_loop /\ stopCycle = 0 /\ exitCause = "stop"
    /\ cycles = 0 /\ connects = 1 /\ disconnects = 1 /\ result = "None"

====
